---- MODULE Spec2Model ----
(***************************************************************************)
(* A model of the BiliNote video-understanding back end:                   *)
(*   - UniversalGPT.summarize      (backend/app/gpt/universal_gpt.py)      *)
(*   - VideoReader.extract_frames / group_images / run                     *)
(*   - split_video_by_duration     (backend/app/utils/video_reader.py)     *)
(* One behaviour is one invocation of one of these operations on a freshly *)
(* constructed object.  Text is modelled as a sequence of one-character    *)
(* strings so that lower(), substring tests, str.strip(), the f-string     *)
(* formatting of file names and the regular expression that parses them    *)
(* are computed, not assumed.  Durations are carried in half seconds so    *)
(* that a fractional duration is a value of the model.                     *)
(***************************************************************************)
EXTENDS Integers, Sequences, FiniteSets, TLC

VARIABLES
    pc,                     \* position of the running operation
    op,                     \* operation invoked: "summarize", "extract_frames", "run", "split"
    input_images,           \* summarize: source.video_img_urls as given by the caller
    source_video_img_urls,  \* summarize: the field source.video_img_urls (mutated)
    requests,               \* summarize: messages passed to client.chat.completions.create, in order
    responses,              \* summarize: what each of these calls answered, in order
    first_error,            \* summarize: the exception e caught at line 109
    frame_interval,         \* VideoReader.frame_interval
    grid_size,              \* VideoReader.grid_size
    frame_dir,              \* file names in VideoReader.frame_dir
    grid_dir,               \* file names in VideoReader.grid_dir
    max_frames,             \* extract_frames: parameter max_frames
    duration,               \* probed duration, in half seconds
    timestamps,             \* extract_frames: local timestamps
    image_paths,            \* extract_frames: local image_paths
    listing,                \* group_images: what os.listdir(frame_dir) returned
    image_files,            \* group_images: the sorted list image_files
    groups,                 \* run: local groups
    idx,                    \* run: number of groups the loop of line 132 has taken
    sheets,                 \* run: contact sheets composed so far (name and frames of each)
    segment_duration,       \* split_video_by_duration: parameter segment_duration
    segment_paths,          \* split_video_by_duration: local segment_paths
    decoder_calls,          \* ffmpeg invocations made so far, in order
    result                  \* outcome of the operation

vars == << pc, op, input_images, source_video_img_urls, requests, responses, first_error,
           frame_interval, grid_size, frame_dir, grid_dir, max_frames, duration,
           timestamps, image_paths, listing, image_files, groups, idx, sheets,
           segment_duration, segment_paths, decoder_calls, result >>

gptVars == << input_images, source_video_img_urls, requests, responses, first_error >>

readerVars == << frame_dir, grid_dir, max_frames, timestamps, image_paths,
                 listing, image_files, groups, idx, sheets >>

splitVars == << segment_paths >>

configVars == << frame_interval, grid_size, segment_duration >>

-----------------------------------------------------------------------------
(* Bounds of the model                                                     *)

\* summarize is given 0 .. MaxImages images
MaxImages == 22

\* extract_frames: the probed duration spans up to MaxSteps sampling intervals (plus a remainder)
MaxSteps == 3

\* split_video_by_duration: the probed duration spans up to MaxSegs thresholds (plus a remainder)
MaxSegs == 3

-----------------------------------------------------------------------------
(* Text                                                                    *)

UpperCase == <<"A","B","C","D","E","F","G","H","I","J","K","L","M","N","O","P","Q","R","S","T","U","V","W","X","Y","Z">>

LowerCase == <<"a","b","c","d","e","f","g","h","i","j","k","l","m","n","o","p","q","r","s","t","u","v","w","x","y","z">>

DigitChars == <<"0","1","2","3","4","5","6","7","8","9">>

\* str.lower() on one character
LowerChar(c) ==
    IF \E i \in 1..Len(UpperCase) : UpperCase[i] = c
    THEN LowerCase[CHOOSE i \in 1..Len(UpperCase) : UpperCase[i] = c]
    ELSE c

\* str.lower()
Lower(s) == [i \in 1..Len(s) |-> LowerChar(s[i])]

\* Python's  sub in s
Contains(sub, s) ==
    \E i \in 0..(Len(s) - Len(sub)) : SubSeq(s, i + 1, i + Len(sub)) = sub

\* str.startswith / str.endswith
StartsWith(s, p) == Len(s) >= Len(p) /\ SubSeq(s, 1, Len(p)) = p

EndsWith(s, p) == Len(s) >= Len(p) /\ SubSeq(s, Len(s) - Len(p) + 1, Len(s)) = p

IsSpace(c) == c = " "

\* str.strip(): drop leading and trailing white space
RECURSIVE LStrip(_)
LStrip(s) == IF s # <<>> /\ IsSpace(Head(s)) THEN LStrip(Tail(s)) ELSE s

RECURSIVE RStrip(_)
RStrip(s) == IF s # <<>> /\ IsSpace(s[Len(s)]) THEN RStrip(SubSeq(s, 1, Len(s) - 1)) ELSE s

Strip(s) == RStrip(LStrip(s))

IsDigit(c) == \E i \in 1..Len(DigitChars) : DigitChars[i] = c

DigitValue(c) == (CHOOSE i \in 1..Len(DigitChars) : DigitChars[i] = c) - 1

\* str(n) for n >= 0
RECURSIVE Str(_)
Str(n) == IF n < 10 THEN << DigitChars[n + 1] >> ELSE Str(n \div 10) \o << DigitChars[(n % 10) + 1] >>

\* int(s) for a string of decimal digits
RECURSIVE ParseInt(_)
ParseInt(s) == IF s = <<>> THEN 0 ELSE 10 * ParseInt(SubSeq(s, 1, Len(s) - 1)) + DigitValue(s[Len(s)])

\* the zero padding is forgotten: {n:d}
Pad02d_unpadded(n) == Str(n)

\* the format specification  {n:02d}
Pad02d(n) == IF n < 10 THEN <<"0">> \o Str(n) ELSE Str(n)

\* Python's  s[:n]
Take(s, n) == SubSeq(s, 1, IF n < Len(s) THEN n ELSE Len(s))

-----------------------------------------------------------------------------
(* UniversalGPT                                                            *)

\* Optional[list]: None, or a list
NoneValue == [isNone |-> TRUE, list |-> <<>>]

Some(l) == [isNone |-> FALSE, list |-> l]

\* Python's  x or []
OrEmpty(v) == v.list

\* truth value of an Optional[list]
Truthy(v) == ~v.isNone /\ Len(v.list) > 0

max_images == 20

\* the cap is off by one
limited_images_off_by_one(original_images) ==
    IF Len(original_images) > max_images
    THEN SubSeq(original_images, 1, max_images + 1)
    ELSE original_images

\* lines 78-79: limited_images
limited_images(original_images) ==
    IF Len(original_images) > max_images
    THEN SubSeq(original_images, 1, max_images)
    ELSE original_images

\* lines 81-83: source.video_img_urls after the cap
CappedSource(v) ==
    IF Len(OrEmpty(v)) > max_images THEN Some(limited_images(OrEmpty(v))) ELSE v

\* generate_base_prompt(...): the prompt text, opaque here
content_text == <<"p","r","o","m","p","t">>

ImagePart(url) == [type |-> "image_url", url |-> url, detail |-> "auto", text |-> <<>>]

TextPart(text) == [type |-> "text", url |-> 0, detail |-> "", text |-> text]

\* create_messages with video_img_urls a list
create_messages(video_img_urls) ==
    << [role |-> "user",
        content |-> << TextPart(content_text) >> \o
                    [i \in 1..Len(video_img_urls) |-> ImagePart(video_img_urls[i])]] >>

\* lines 112-117
is_vlm_error(error_msg) ==
    \/ Contains(<<"V","L","M">>, error_msg)
    \/ Contains(<<"V","i","s","i","o","n"," ","L","a","n","g","u","a","g","e"," ","M","o","d","e","l">>, error_msg)
    \/ Contains(<<"v","i","s","i","o","n">>, Lower(error_msg))
    \/ (Contains(<<"i","m","a","g","e">>, Lower(error_msg)) /\ Contains(<<"n","o","t">>, Lower(error_msg)))

\* the guard forgets to ask for images
ShouldRetry_any_vlm_error(error_msg, urls) == is_vlm_error(error_msg)

\* line 120: the guard of the text-only retry
ShouldRetry(error_msg, urls) == is_vlm_error(error_msg) /\ Truthy(urls)

\* the retry sends the images again
RetryImages_again(urls) == urls

\* line 128: video_img_urls passed to create_messages for the retry
RetryImages(urls) == <<>>

\* messages of the language service's failures
ErrorMessages ==
    { <<"V","L","M"," ","u","n","s","u","p","p","o","r","t","e","d">>,
      <<"v","l","m"," ","u","n","s","u","p","p","o","r","t","e","d">>,
      <<"V","i","s","i","o","n"," ","L","a","n","g","u","a","g","e"," ","M","o","d","e","l"," ","o","n","l","y">>,
      <<"V","I","S","I","O","N"," ","O","F","F">>,
      <<"n","o"," ","v","i","s","i","o","n">>,
      <<"I","m","a","g","e"," ","i","n","p","u","t"," ","n","o","t"," ","a","l","l","o","w","e","d">>,
      <<"I","M","A","G","E"," ","N","O","T"," ","O","K">>,
      <<"i","m","a","g","e"," ","t","o","o"," ","b","i","g">>,
      <<"r","a","t","e"," ","l","i","m","i","t">> }

\* str(e) of  None.strip()
NoneStripMessage ==
    <<"'","N","o","n","e","T","y","p","e","'"," ","o","b","j","e","c","t"," ","h","a","s"," ","n","o"," ","a","t","t","r","i","b","u","t","e"," ","'","s","t","r","i","p","'">>

\* str(e) of  for url in None
NoneIterMessage ==
    <<"'","N","o","n","e","T","y","p","e","'"," ","o","b","j","e","c","t"," ","i","s"," ","n","o","t"," ","i","t","e","r","a","b","l","e">>

\* response.choices[0].message.content: None, or a text
Contents ==
    { NoneValue, Some(<<" ","o","k"," ">>), Some(<<"o","k">>), Some(<<>>) }

\* an exception: its type, its message and the call (1 or 2, 0: no call) it came from
Exception(type, msg, call) == [type |-> type, msg |-> msg, call |-> call]

NoError == Exception("", <<>>, 0)

Returned(v) == [kind |-> "return", value |-> v, error |-> NoError]

Raised(e) == [kind |-> "raise", value |-> <<>>, error |-> e]

NoResult == [kind |-> "none", value |-> <<>>, error |-> NoError]

\* an answer of the language service: a response with its content, or an exception with its message
ServiceReturn(c) == [kind |-> "return", content |-> c, msg |-> <<>>]

ServiceRaise(m) == [kind |-> "raise", content |-> NoneValue, msg |-> m]

\* the images a caller passes: the urls 1..n, in either order
ImageLists ==
    UNION { { [i \in 1..n |-> i], [i \in 1..n |-> n + 1 - i] } : n \in 0..MaxImages }

\* lines 71-105: summarize up to the first call of the language service
SummarizeCall ==
    /\ pc = "idle" /\ op = "summarize"
    /\ \E v \in { NoneValue } \cup { Some(l) : l \in ImageLists } :
        /\ input_images' = v
        /\ source_video_img_urls' = CappedSource(v)
        /\ IF CappedSource(v).isNone
           THEN \* create_messages iterates over None: TypeError, outside the try
                /\ requests' = <<>>
                /\ result' = Raised(Exception("TypeError", NoneIterMessage, 0))
                /\ pc' = "done"
           ELSE /\ requests' = << create_messages(CappedSource(v).list) >>
                /\ result' = NoResult
                /\ pc' = "first_call"
    /\ UNCHANGED << op, responses, first_error, readerVars, splitVars, configVars, duration, decoder_calls >>

\* lines 109-152: the handler of the first attempt's exception e
FirstAttemptFailed(e) ==
    /\ first_error' = e
    /\ IF ShouldRetry(e.msg, source_video_img_urls)
       THEN /\ source_video_img_urls' = Some(<<>>)
            /\ requests' = Append(requests, create_messages(RetryImages(source_video_img_urls.list)))
            /\ result' = NoResult
            /\ pc' = "retry_call"
       ELSE /\ result' = Raised(e)
            /\ pc' = "done"
            /\ UNCHANGED << source_video_img_urls, requests >>

\* lines 100-108: the first call returns a response
FirstCallReturns ==
    /\ pc = "first_call"
    /\ \E c \in Contents :
        /\ responses' = Append(responses, ServiceReturn(c))
        /\ IF c.isNone
           THEN FirstAttemptFailed(Exception("AttributeError", NoneStripMessage, 1))
           ELSE /\ result' = Returned(Strip(c.list))
                /\ pc' = "done"
                /\ UNCHANGED << source_video_img_urls, requests, first_error >>
    /\ UNCHANGED << op, input_images, readerVars, splitVars, configVars, duration, decoder_calls >>

\* line 100 raises
FirstCallRaises ==
    /\ pc = "first_call"
    /\ \E m \in ErrorMessages :
        /\ responses' = Append(responses, ServiceRaise(m))
        /\ FirstAttemptFailed(Exception("APIError", m, 1))
    /\ UNCHANGED << op, input_images, readerVars, splitVars, configVars, duration, decoder_calls >>

\* lines 135-143: the retry returns a response
RetryCallReturns ==
    /\ pc = "retry_call"
    /\ \E c \in Contents :
        /\ responses' = Append(responses, ServiceReturn(c))
        /\ result' = IF c.isNone
                     THEN Raised(Exception("AttributeError", NoneStripMessage, 2))
                     ELSE Returned(Strip(c.list))
    /\ pc' = "done"
    /\ UNCHANGED << op, input_images, source_video_img_urls, requests, first_error,
                    readerVars, splitVars, configVars, duration, decoder_calls >>

\* lines 135, 144-147: the retry raises
RetryCallRaises ==
    /\ pc = "retry_call"
    /\ \E m \in ErrorMessages :
        /\ responses' = Append(responses, ServiceRaise(m))
        /\ result' = Raised(Exception("APIError", m, 2))
    /\ pc' = "done"
    /\ UNCHANGED << op, input_images, source_video_img_urls, requests, first_error,
                    readerVars, splitVars, configVars, duration, decoder_calls >>

summarize ==
    \/ SummarizeCall
    \/ FirstCallReturns
    \/ FirstCallRaises
    \/ RetryCallReturns
    \/ RetryCallRaises

-----------------------------------------------------------------------------
(* Durations: float seconds, carried in half seconds                       *)

\* the float  whole + 0.5 * halves
Seconds(whole, halves) == 2 * whole + halves

\* int(duration)
IntPart(d) == d \div 2

\* a call of ffmpeg.probe or of the ffmpeg executable
DecoderCall(kind, ss, t, out, ok) == [kind |-> kind, ss |-> ss, t |-> t, out |-> out, ok |-> ok]

ProbeCall(ok) == DecoderCall("probe", 0, 0, <<>>, ok)

-----------------------------------------------------------------------------
(* VideoReader                                                             *)

\* line 50: the default of max_frames
default_max_frames == 1000

\* lines 38-41
format_time(seconds) ==
    LET mm == seconds \div 60
        ss == seconds % 60
    IN  Pad02d(mm) \o <<"_">> \o Pad02d(ss)

\* line 60: the base name of output_path
FrameName(ts) == <<"f","r","a","m","e","_">> \o format_time(ts) \o <<".","j","p","g">>

\* a sort key: a number, or float('inf')
Finite(n) == [inf |-> FALSE, val |-> n]

Infinity == [inf |-> TRUE, val |-> 0]

KeyLess(a, b) == ~a.inf /\ (b.inf \/ a.val < b.val)

\* the pattern  frame_(\d{2})_(\d{2})\.jpg  matches filename at offset i (1-based)
PatternAt(filename, i) ==
    /\ i + 14 <= Len(filename)
    /\ SubSeq(filename, i, i + 5) = <<"f","r","a","m","e","_">>
    /\ IsDigit(filename[i + 6]) /\ IsDigit(filename[i + 7])
    /\ filename[i + 8] = "_"
    /\ IsDigit(filename[i + 9]) /\ IsDigit(filename[i + 10])
    /\ SubSeq(filename, i + 11, i + 14) = <<".","j","p","g">>

\* lines 43-48: re.search takes the leftmost match
extract_time_from_filename(filename) ==
    LET at == { i \in 1..Len(filename) : PatternAt(filename, i) }
    IN  IF at # {}
        THEN LET i == CHOOSE j \in at : \A k \in at : j <= k
                 mm == ParseInt(SubSeq(filename, i + 6, i + 7))
                 ss == ParseInt(SubSeq(filename, i + 9, i + 10))
             IN  Finite(mm * 60 + ss)
        ELSE Infinity

\* range(0, stop, step) as a list, step > 0
Range0(stop, step) ==
    [i \in 1..(IF stop > 0 THEN (stop + step - 1) \div step ELSE 0) |-> (i - 1) * step]

\* the range includes its end: range(0, int(duration) + 1, interval)
Timestamps_inclusive(d, interval, max) == Take(Range0(IntPart(d) + 1, interval), max)

\* line 55
Timestamps(d, interval, max) == Take(Range0(IntPart(d), interval), max)

\* list.sort(key = extract_time_from_filename): stable
InsertByTime(sorted, f) ==
    LET later == { i \in 1..Len(sorted) :
                     KeyLess(extract_time_from_filename(f), extract_time_from_filename(sorted[i])) }
        at == IF later = {} THEN Len(sorted) + 1 ELSE CHOOSE i \in later : \A k \in later : i <= k
    IN  SubSeq(sorted, 1, at - 1) \o << f >> \o SubSeq(sorted, at, Len(sorted))

RECURSIVE SortByTime(_)
SortByTime(files) ==
    IF files = <<>> THEN <<>>
    ELSE InsertByTime(SortByTime(SubSeq(files, 1, Len(files) - 1)), files[Len(files)])

IsFrameFile(f) == StartsWith(f, <<"f","r","a","m","e","_">>) /\ EndsWith(f, <<".","j","p","g">>)

\* lines 71-73: image_files, from the directory listing
SortedFrameFiles(names) == SortByTime(SelectSeq(names, IsFrameFile))

group_size(grid) == grid[1] * grid[2]

\* line 75
Chunks(files, size) ==
    [k \in 1..((Len(files) + size - 1) \div size) |->
        SubSeq(files, (k - 1) * size + 1, IF k * size < Len(files) THEN k * size ELSE Len(files))]

\* the check of the group's length is forgotten
IsShort_never(group, grid) == FALSE

\* line 133: the group is skipped
IsShort(group, grid) == Len(group) < group_size(grid)

\* lines 118-120: the frame directory after the clean-up
ClearFrames(dir) == { f \in dir : ~StartsWith(f, <<"f","r","a","m","e","_">>) }

\* lines 123-125: the grid directory after the clean-up
ClearGrids(dir) == { f \in dir : ~StartsWith(f, <<"g","r","i","d","_">>) }

\* os.listdir: the names of a directory in any order
Listings(dir) ==
    { l \in [1..Cardinality(dir) -> dir] : \A i, j \in 1..Cardinality(dir) : l[i] = l[j] => i = j }

\* line 136: the name given to concat_images
GridName(i) == <<"g","r","i","d","_">> \o Str(i)

\* lines 102-108
encode_images_to_base64(paths) ==
    [i \in 1..Len(paths) |-> [mime |-> "data:image/jpeg;base64", payload |-> paths[i].frames]]

\* lines 68, 144: ValueError("视频处理失败")
ProcessingFailed == Exception("ValueError", <<"f","a","i","l","e","d">>, 0)

\* the frames written so far are returned
ExtractFailure_partial(paths) == Returned(paths)

\* lines 66-68: what extract_frames hands its caller when a probe or a decode fails
ExtractFailure(paths) == Raised(ProcessingFailed)

\* files left in the directories by earlier runs
StaleFrameDir == { <<"f","r","a","m","e","_","0","0","_","0","1",".","j","p","g">>, <<"k","e","e","p",".","t","x","t">> }

StaleGridDir == { <<"g","r","i","d","_","7",".","j","p","g">> }

Intervals == { 1, 2, 3000 }

GridSizes == { <<1, 2>>, <<2, 2>> }

MaxFrameChoices == { 0, 2, default_max_frames }

\* durations probed for a sampling interval: whole and fractional seconds
ProbedDurations(interval) ==
    { Seconds(k * interval + j, f) : k \in 0..MaxSteps, j \in 0..1, f \in 0..1 }

\* lines 52-57: extract_frames up to its loop
BeginExtract(max) ==
    /\ max_frames' = max
    /\ image_paths' = <<>>
    /\ \/ \E d \in ProbedDurations(frame_interval) :
            /\ duration' = d
            /\ timestamps' = Timestamps(d, frame_interval, max)
            /\ decoder_calls' = Append(decoder_calls, ProbeCall(TRUE))
            /\ result' = NoResult
            /\ pc' = "extracting"
       \/ /\ decoder_calls' = Append(decoder_calls, ProbeCall(FALSE))
          /\ result' = ExtractFailure(<<>>)
          /\ pc' = "done"
          /\ UNCHANGED << duration, timestamps >>

\* extract_frames(max_frames) called on its own
ExtractFramesCall ==
    /\ pc = "idle" /\ op = "extract_frames"
    /\ \E max \in MaxFrameChoices : BeginExtract(max)
    /\ UNCHANGED << op, gptVars, frame_dir, grid_dir, listing, image_files, groups, idx, sheets,
                    splitVars, configVars >>

\* lines 110-127: run up to the loop of extract_frames()
RunCall ==
    /\ pc = "idle" /\ op = "run"
    /\ frame_dir' = ClearFrames(frame_dir)
    /\ grid_dir' = ClearGrids(grid_dir)
    /\ BeginExtract(default_max_frames)
    /\ UNCHANGED << op, gptVars, listing, image_files, groups, idx, sheets, splitVars, configVars >>

\* the timestamp the loop of line 58 is at
NextTimestamp == timestamps[Len(image_paths) + 1]

FrameCall(ts, ok) == DecoderCall("frame", ts, 0, FrameName(ts), ok)

\* lines 59-64: one frame is written
DecodeFrame ==
    /\ pc = "extracting"
    /\ Len(image_paths) < Len(timestamps)
    /\ decoder_calls' = Append(decoder_calls, FrameCall(NextTimestamp, TRUE))
    /\ frame_dir' = frame_dir \cup { FrameName(NextTimestamp) }
    /\ image_paths' = Append(image_paths, FrameName(NextTimestamp))
    /\ UNCHANGED << pc, op, gptVars, grid_dir, max_frames, duration, timestamps, listing, image_files,
                    groups, idx, sheets, splitVars, configVars, result >>

\* lines 63, 66-68 (and 142-144 under run): subprocess.run raises
DecodeFrameFails ==
    /\ pc = "extracting"
    /\ Len(image_paths) < Len(timestamps)
    /\ decoder_calls' = Append(decoder_calls, FrameCall(NextTimestamp, FALSE))
    /\ result' = ExtractFailure(image_paths)
    /\ pc' = "done"
    /\ UNCHANGED << op, gptVars, readerVars, splitVars, configVars, duration >>

\* line 65, extract_frames called on its own
ExtractFramesReturns ==
    /\ pc = "extracting" /\ op = "extract_frames"
    /\ Len(image_paths) = Len(timestamps)
    /\ result' = Returned(image_paths)
    /\ pc' = "done"
    /\ UNCHANGED << op, gptVars, readerVars, splitVars, configVars, duration, decoder_calls >>

\* lines 70-75, 131: group_images
group_images ==
    /\ pc = "extracting" /\ op = "run"
    /\ Len(image_paths) = Len(timestamps)
    /\ \E l \in Listings(frame_dir) :
        /\ listing' = l
        /\ image_files' = SortedFrameFiles(l)
        /\ groups' = Chunks(SortedFrameFiles(l), group_size(grid_size))
    /\ idx' = 0
    /\ pc' = "composing"
    /\ UNCHANGED << op, gptVars, frame_dir, grid_dir, max_frames, duration, timestamps,
                    image_paths, sheets, splitVars, configVars, decoder_calls, result >>

\* lines 132-135: a group with too few frames
SkipGroup ==
    /\ pc = "composing"
    /\ idx < Len(groups)
    /\ IsShort(groups[idx + 1], grid_size)
    /\ idx' = idx + 1
    /\ UNCHANGED << pc, op, gptVars, frame_dir, grid_dir, max_frames, duration, timestamps,
                    image_paths, listing, image_files, groups, sheets, splitVars, configVars,
                    decoder_calls, result >>

\* lines 136-137: concat_images writes the sheet
ConcatImages ==
    /\ pc = "composing"
    /\ idx < Len(groups)
    /\ ~IsShort(groups[idx + 1], grid_size)
    /\ idx' = idx + 1
    /\ sheets' = Append(sheets, [name |-> GridName(idx + 1), frames |-> groups[idx + 1]])
    /\ grid_dir' = grid_dir \cup { GridName(idx + 1) \o <<".","j","p","g">> }
    /\ UNCHANGED << pc, op, gptVars, frame_dir, max_frames, duration, timestamps,
                    image_paths, listing, image_files, groups, splitVars, configVars,
                    decoder_calls, result >>

\* lines 136, 142-144: concat_images raises
ConcatImagesFails ==
    /\ pc = "composing"
    /\ idx < Len(groups)
    /\ ~IsShort(groups[idx + 1], grid_size)
    /\ result' = Raised(ProcessingFailed)
    /\ pc' = "done"
    /\ UNCHANGED << op, gptVars, readerVars, splitVars, configVars, duration, decoder_calls >>

\* lines 139-141
RunReturns ==
    /\ pc = "composing"
    /\ idx = Len(groups)
    /\ result' = Returned(encode_images_to_base64(sheets))
    /\ pc' = "done"
    /\ UNCHANGED << op, gptVars, readerVars, splitVars, configVars, duration, decoder_calls >>

VideoReader ==
    \/ ExtractFramesCall
    \/ RunCall
    \/ DecodeFrame
    \/ DecodeFrameFails
    \/ ExtractFramesReturns
    \/ group_images
    \/ SkipGroup
    \/ ConcatImages
    \/ ConcatImagesFails
    \/ RunReturns

-----------------------------------------------------------------------------
(* split_video_by_duration                                                 *)

\* line 14
SEGMENT_DURATION == 300

input_video_path == <<"v","i","d","e","o",".","m","p","4">>

\* line 187: the base name of output_path, i from 0
SegmentPath(i) ==
    <<"v","i","d","e","o">> \o <<"_","p","a","r","t">> \o Pad02d(i + 1) \o <<".","m","p","4">>

\* the remainder is forgotten
num_segments_floor(d, seg) == d \div Seconds(seg, 0)

\* line 179, with segment_duration an int > 0
num_segments(d, seg) ==
    (d \div Seconds(seg, 0)) + (IF d % Seconds(seg, 0) > 0 THEN 1 ELSE 0)

\* the segments written so far are returned
SplitFailure_partial(paths) == Returned(paths)

\* lines 207-210: what the function hands its caller when anything raised
SplitFailure(paths) == Returned(<< input_video_path >>)

Thresholds == { 2, 3, SEGMENT_DURATION }

\* durations probed for a threshold: whole and fractional seconds
SplitDurations(seg) ==
    { Seconds(k * seg + j, f) : k \in 0..MaxSegs, j \in { r \in { 0, 1, 100 } : r < seg }, f \in 0..1 }

\* lines 159-182: split_video_by_duration up to its loop
SplitCall ==
    /\ pc = "idle" /\ op = "split"
    /\ segment_paths' = <<>>
    /\ \/ \E d \in SplitDurations(segment_duration) :
            /\ duration' = d
            /\ decoder_calls' = Append(decoder_calls, ProbeCall(TRUE))
            /\ IF d <= Seconds(segment_duration, 0)
               THEN result' = Returned(<< input_video_path >>) /\ pc' = "done"
               ELSE result' = NoResult /\ pc' = "splitting"
       \/ /\ decoder_calls' = Append(decoder_calls, ProbeCall(FALSE))
          /\ result' = SplitFailure(<<>>)
          /\ pc' = "done"
          /\ UNCHANGED duration
    /\ UNCHANGED << op, gptVars, readerVars, configVars >>

SegmentCall(i, ok) ==
    DecoderCall("segment", i * segment_duration, segment_duration, SegmentPath(i), ok)

\* lines 185-202: one segment is copied
CopySegment ==
    /\ pc = "splitting"
    /\ Len(segment_paths) < num_segments(duration, segment_duration)
    /\ decoder_calls' = Append(decoder_calls, SegmentCall(Len(segment_paths), TRUE))
    /\ segment_paths' = Append(segment_paths, SegmentPath(Len(segment_paths)))
    /\ UNCHANGED << pc, op, gptVars, readerVars, configVars, duration, result >>

\* lines 191-199, 207-210: subprocess.run raises
CopySegmentFails ==
    /\ pc = "splitting"
    /\ Len(segment_paths) < num_segments(duration, segment_duration)
    /\ decoder_calls' = Append(decoder_calls, SegmentCall(Len(segment_paths), FALSE))
    /\ result' = SplitFailure(segment_paths)
    /\ pc' = "done"
    /\ UNCHANGED << op, gptVars, readerVars, splitVars, configVars, duration >>

\* lines 204-205
SplitReturns ==
    /\ pc = "splitting"
    /\ Len(segment_paths) = num_segments(duration, segment_duration)
    /\ result' = Returned(segment_paths)
    /\ pc' = "done"
    /\ UNCHANGED << op, gptVars, readerVars, splitVars, configVars, duration, decoder_calls >>

split_video_by_duration ==
    \/ SplitCall
    \/ CopySegment
    \/ CopySegmentFails
    \/ SplitReturns

-----------------------------------------------------------------------------
(* The program: one operation is invoked on freshly constructed objects    *)

Init ==
    /\ pc = "idle"
    /\ op \in { "summarize", "extract_frames", "run", "split" }
    /\ input_images = NoneValue
    /\ source_video_img_urls = NoneValue
    /\ requests = <<>>
    /\ responses = <<>>
    /\ first_error = NoError
    /\ IF op \in { "extract_frames", "run" }
       THEN /\ frame_interval \in Intervals
            /\ grid_size \in GridSizes
            /\ \E stale \in BOOLEAN :
                /\ frame_dir = IF stale THEN StaleFrameDir ELSE {}
                /\ grid_dir = IF stale THEN StaleGridDir ELSE {}
       ELSE /\ frame_interval = 2
            /\ grid_size = <<3, 3>>
            /\ frame_dir = {}
            /\ grid_dir = {}
    /\ max_frames = 0
    /\ duration = 0
    /\ timestamps = <<>>
    /\ image_paths = <<>>
    /\ listing = <<>>
    /\ image_files = <<>>
    /\ groups = <<>>
    /\ idx = 0
    /\ sheets = <<>>
    /\ IF op = "split" THEN segment_duration \in Thresholds ELSE segment_duration = SEGMENT_DURATION
    /\ segment_paths = <<>>
    /\ decoder_calls = <<>>
    /\ result = NoResult

Next ==
    \/ summarize
    \/ VideoReader
    \/ split_video_by_duration

Spec == Init /\ [][Next]_vars

-----------------------------------------------------------------------------
(* Properties of UniversalGPT.summarize                                    *)

\* the parts of the single message of a request
PartsOf(request) == request[1].content

ImagePartsOf(request) == SelectSeq(PartsOf(request), LAMBDA p : p.type = "image_url")

TextPartsOf(request) == SelectSeq(PartsOf(request), LAMBDA p : p.type = "text")

\* the first attempt failed: an exception was caught at line 109
FirstAttemptHasFailed == first_error # NoError

ImageAttached == Len(input_images.list) > 0

\* the outcome summarize derives from answer k of the language service
OutcomeOf(k) ==
    IF responses[k].kind = "raise"
    THEN Raised(Exception("APIError", responses[k].msg, k))
    ELSE IF responses[k].content.isNone
         THEN Raised(Exception("AttributeError", NoneStripMessage, k))
         ELSE Returned(Strip(responses[k].content.list))

\* C1: after a first failure classified as vision-incapability with an image attached,
\* exactly one further call is made, with one text part and no image part, and the
\* outcome of summarize is the outcome of that second call; there is never a third
\* call, and never a second call after a first call that returned a response.
C1_TextOnlyRetryOnce ==
    /\ Len(requests) <= 2
    /\ (Len(responses) >= 1 /\ responses[1].kind = "return") => Len(requests) = 1
    /\ (FirstAttemptHasFailed /\ is_vlm_error(first_error.msg) /\ ImageAttached) =>
          /\ Len(requests) = 2
          /\ Len(TextPartsOf(requests[2])) = 1
          /\ Len(ImagePartsOf(requests[2])) = 0
          /\ Len(requests[2]) = 1
          /\ pc \in { "retry_call", "done" }
          /\ pc = "retry_call" => (Len(responses) = 1 /\ result = NoResult)
          /\ pc = "done" => (Len(responses) = 2 /\ result = OutcomeOf(2))

\* C1 witness: a retry was made after a vision failure with images, and it has answered
C1_Witness ==
    /\ pc = "done" /\ op = "summarize"
    /\ FirstAttemptHasFailed /\ is_vlm_error(first_error.msg) /\ ImageAttached
    /\ Len(requests) = 2 /\ result.kind = "return"

\* C2: a first failure that is not classified as vision-incapability, or that comes with
\* no image attached, is raised to the caller as it is: one call, and no text-only retry.
C2_OtherFailurePropagates ==
    (FirstAttemptHasFailed /\ (~is_vlm_error(first_error.msg) \/ ~ImageAttached)) =>
        /\ pc = "done"
        /\ Len(requests) = 1
        /\ Len(responses) = 1
        /\ result = OutcomeOf(1)
        /\ result.kind = "raise"
        /\ result.error = first_error

\* C2 witness: a vision-classified failure with no image attached was raised
C2_Witness ==
    /\ pc = "done" /\ op = "summarize"
    /\ FirstAttemptHasFailed /\ is_vlm_error(first_error.msg) /\ ~ImageAttached
    /\ ~input_images.isNone

Min(a, b) == IF a < b THEN a ELSE b

\* C3: every request is one message of one text part followed by at most 20 image
\* parts, and the first request carries the first min(n, 20) of the n given images,
\* in their order.
C3_ImageCap ==
    /\ \A k \in 1..Len(requests) :
          /\ Len(requests[k]) = 1
          /\ Len(PartsOf(requests[k])) >= 1
          /\ PartsOf(requests[k])[1].type = "text"
          /\ \A i \in 2..Len(PartsOf(requests[k])) : PartsOf(requests[k])[i].type = "image_url"
          /\ Len(PartsOf(requests[k])) - 1 <= 20
    /\ Len(requests) >= 1 =>
          /\ Len(PartsOf(requests[1])) - 1 = Min(Len(input_images.list), 20)
          /\ \A i \in 1..Min(Len(input_images.list), 20) :
                PartsOf(requests[1])[i + 1].url = input_images.list[i]

\* C3 witness: more than 20 images were given and a request was sent
C3_Witness ==
    /\ Len(input_images.list) > 20
    /\ Len(requests) >= 1
    /\ Len(ImagePartsOf(requests[1])) = 20

\* C9 (as claimed): the classification does not depend on letter case: every message that
\* differs from the caught one only in case is classified as the caught one was, so that
\* with an image attached both are retried or neither is.
C9_CaseInsensitive ==
    (FirstAttemptHasFailed /\ ImageAttached) =>
        \A m \in ErrorMessages :
            Lower(m) = Lower(first_error.msg) =>
                (ShouldRetry(m, Some(input_images.list)) <=> Len(requests) = 2)

-----------------------------------------------------------------------------
(* Properties of VideoReader                                               *)

ReaderInvoked == op \in { "extract_frames", "run" } /\ pc # "idle"

SomeCallFailed == \E k \in 1..Len(decoder_calls) : ~decoder_calls[k].ok

ProbeSucceeded == Len(decoder_calls) >= 1 /\ decoder_calls[1].ok

\* the calls of the ffmpeg executable: all but the probe
ExecCalls == Tail(decoder_calls)

\* C6: when the probe or the decoding of one timestamp fails, the extraction stops
\* there, one generic processing failure is raised, no list of frames is returned, and
\* under run no contact sheet is composed and no encoded image returned.
C6_FailFast ==
    (ReaderInvoked /\ SomeCallFailed) =>
        /\ pc = "done"
        /\ \A k \in 1..Len(decoder_calls) : ~decoder_calls[k].ok <=> k = Len(decoder_calls)
        /\ Len(ExecCalls) <= Len(image_paths) + 1
        /\ result.kind = "raise"
        /\ result.error.type = "ValueError"
        /\ result.value = <<>>
        /\ sheets = <<>> /\ groups = <<>> /\ image_files = <<>>
        /\ op = "run" => \A f \in grid_dir : ~StartsWith(f, <<"g","r","i","d","_">>)

\* C6 witness: under run, the decoder failed after frames had been written
C6_Witness ==
    /\ op = "run" /\ pc = "done"
    /\ SomeCallFailed
    /\ Len(image_paths) >= 2

\* C7 (amended): the sampled timestamps are exactly the multiples of the interval that
\* are strictly less than floor(D), ascending, cut to the first M; each decoder call
\* seeks to the next of them.
C7_Timestamps ==
    (ReaderInvoked /\ ProbeSucceeded) =>
        /\ \A i \in 1..Len(timestamps) :
              /\ timestamps[i] = (i - 1) * frame_interval
              /\ 2 * timestamps[i] < 2 * (duration \div 2)
        /\ Len(timestamps) <= max_frames
        /\ Len(timestamps) = max_frames \/ 2 * (Len(timestamps) * frame_interval) >= 2 * (duration \div 2)
        /\ Len(ExecCalls) <= Len(timestamps)
        /\ \A k \in 1..Len(ExecCalls) : ExecCalls[k].ss = timestamps[k]
        /\ (op = "extract_frames" /\ result.kind = "return") => Len(result.value) = Len(timestamps)

\* C7 witness: a fractional duration whose whole part is a multiple of the interval
C7_Witness ==
    /\ op = "extract_frames" /\ pc = "done" /\ result.kind = "return"
    /\ duration % 2 = 1
    /\ (duration \div 2) % frame_interval = 0
    /\ Len(timestamps) >= 2
    /\ Len(timestamps) < max_frames

\* C7 (as claimed): the sampled timestamps are exactly the multiples of the interval
\* that are strictly less than D, cut to the first M.
C7_Original ==
    (ReaderInvoked /\ ProbeSucceeded) =>
        /\ \A i \in 1..Len(timestamps) :
              /\ timestamps[i] = (i - 1) * frame_interval
              /\ 2 * timestamps[i] < duration
        /\ Len(timestamps) <= max_frames
        /\ Len(timestamps) = max_frames \/ 2 * (Len(timestamps) * frame_interval) >= duration

FrameFilesIn(dir) == { f \in dir : IsFrameFile(f) }

RunReturned == op = "run" /\ pc = "done" /\ result.kind = "return"

\* C8: with N frame files in the frame directory and G = rows * cols, run composes
\* floor(N / G) sheets, sheet k from frames (k-1)G+1 .. kG of the sorted list and named
\* grid_k; the N mod G last frames are in no sheet.
C8_CompleteGroups ==
    /\ \A k \in 1..Len(sheets) : Len(sheets[k].frames) = grid_size[1] * grid_size[2]
    /\ RunReturned =>
        LET N == Cardinality(FrameFilesIn(frame_dir))
            G == grid_size[1] * grid_size[2]
        IN  /\ Len(image_files) = N
            /\ Len(sheets) = N \div G
            /\ Len(result.value) = N \div G
            /\ \A k \in 1..Len(sheets) :
                  /\ sheets[k].frames = SubSeq(image_files, (k - 1) * G + 1, k * G)
                  /\ sheets[k].name = <<"g","r","i","d","_">> \o Str(k)
                  /\ result.value[k].payload = sheets[k].frames

\* C8 witness: a run whose frames fill one sheet and leave a remainder
C8_Witness ==
    /\ RunReturned
    /\ Len(sheets) >= 1
    /\ Cardinality(FrameFilesIn(frame_dir)) % (grid_size[1] * grid_size[2]) # 0

\* group_images has run
Grouped == op = "run" /\ (pc = "composing" \/ (pc = "done" /\ ~SomeCallFailed))

AllBelow100Minutes == \A i \in 1..Len(timestamps) : timestamps[i] < 100 * 60

\* C10 (amended): for a frame sampled below 100 minutes, the timestamp parsed from its
\* file name is the timestamp sampled; distinct timestamps get distinct names; and when
\* all sampled timestamps are below 100 minutes, group_images orders the frames by
\* ascending timestamp whatever the order of the directory listing.
C10_NamesRoundTrip ==
    ReaderInvoked =>
        /\ \A i \in 1..Len(image_paths) :
              timestamps[i] < 100 * 60 =>
                  extract_time_from_filename(image_paths[i]) = Finite(timestamps[i])
        /\ \A i, j \in 1..Len(image_paths) : image_paths[i] = image_paths[j] => i = j
        /\ (Grouped /\ AllBelow100Minutes) => image_files = image_paths

\* C10 witness: frames below 100 minutes were listed out of order and grouped in order
C10_Witness ==
    /\ Grouped /\ AllBelow100Minutes
    /\ Len(image_paths) >= 3
    /\ SelectSeq(listing, IsFrameFile) # image_paths
    /\ image_files = image_paths

\* C10 (as claimed): the same for every sampled timestamp, those of 100 minutes or more
\* included.
C10_Original ==
    ReaderInvoked =>
        /\ \A i \in 1..Len(image_paths) :
              extract_time_from_filename(image_paths[i]) = Finite(timestamps[i])
        /\ \A i, j \in 1..Len(image_paths) : image_paths[i] = image_paths[j] => i = j
        /\ Grouped => image_files = image_paths

-----------------------------------------------------------------------------
(* Properties of split_video_by_duration                                   *)

SplitInvoked == op = "split" /\ pc # "idle"

SplitCompleted ==
    /\ op = "split" /\ pc = "done"
    /\ ~SomeCallFailed
    /\ duration > 2 * segment_duration

\* the length, in half seconds, of what a stream copy yields: the range asked for, cut
\* at the end of the video
EffectiveLength(call) == Min(2 * (call.ss + call.t), duration) - 2 * call.ss

\* C4 (amended): n = ceil(duration / threshold) ranges are requested; range i starts at
\* i * threshold and every range, the last included, is requested with length threshold;
\* cut at the end of the video the ranges partition [0, duration), the last having
\* length duration - threshold * (n - 1); the n paths are returned in index order.
C4_Segments ==
    /\ SplitInvoked =>
          \A i \in 1..Len(ExecCalls) :
              /\ ExecCalls[i].kind = "segment"
              /\ ExecCalls[i].ss = (i - 1) * segment_duration
              /\ ExecCalls[i].t = segment_duration
    /\ SplitCompleted =>
          LET n == Len(ExecCalls)
          IN  /\ 2 * segment_duration * (n - 1) < duration
              /\ duration <= 2 * segment_duration * n
              /\ \A i \in 1..(n - 1) : EffectiveLength(ExecCalls[i]) = 2 * segment_duration
              /\ EffectiveLength(ExecCalls[n]) = duration - 2 * segment_duration * (n - 1)
              /\ result.kind = "return"
              /\ Len(result.value) = n
              /\ \A i \in 1..n : result.value[i] = ExecCalls[i].out
              /\ \A i, j \in 1..n : ExecCalls[i].out = ExecCalls[j].out => i = j

\* C4 witness: 700 s with a threshold of 300 s, in three segments
C4_Witness ==
    /\ SplitCompleted
    /\ duration = 2 * 700 /\ segment_duration = 300
    /\ Len(result.value) = 3

\* C4 (as claimed): the last range requested from the decoder has length
\* duration - threshold * (n - 1).
C4_Original ==
    SplitCompleted =>
        LET n == Len(ExecCalls)
        IN  /\ 2 * segment_duration * (n - 1) < duration
            /\ duration <= 2 * segment_duration * n
            /\ \A i \in 1..n : ExecCalls[i].ss = (i - 1) * segment_duration
            /\ \A i \in 1..(n - 1) : 2 * ExecCalls[i].t = 2 * segment_duration
            /\ 2 * ExecCalls[n].t = duration - 2 * segment_duration * (n - 1)

\* C5: when the probe or the copy of any segment fails, nothing is raised and the
\* result is the list holding the original path alone, never a list of segments.
C5_SoftFail ==
    (SplitInvoked /\ SomeCallFailed) =>
        /\ pc = "done"
        /\ \A k \in 1..Len(decoder_calls) : ~decoder_calls[k].ok <=> k = Len(decoder_calls)
        /\ result.kind = "return"
        /\ result.value = << <<"v","i","d","e","o",".","m","p","4">> >>

\* C5 witness: the copy failed after earlier segments had been written
C5_Witness ==
    /\ op = "split" /\ pc = "done"
    /\ SomeCallFailed
    /\ Len(segment_paths) >= 2

====
